---- MODULE Spec2Model ----
(***************************************************************************)
(* Model of mci-uvx: the layered environment resolution of                 *)
(* mci/utils/dotenv.py and the schema validation of mci/core/validator.py  *)
(* (with the engine wrapper of mci/core/config.py).                        *)
(*                                                                         *)
(* Text is modelled as sequences of one-character strings, so that         *)
(* str.strip, str.startswith, slicing and re.match are computed character  *)
(* by character.  Mappings (dict[str, str]) are functions whose domain is  *)
(* the key set; the empty dict is the empty function <<>>.                 *)
(***************************************************************************)
EXTENDS Integers, Sequences, FiniteSets, TLC

VARIABLES
    fs,             \* the four candidate files on disk
    environ,        \* os.environ
    additional_env, \* the additional_env argument of get_env_with_dotenv
    pc,             \* position inside get_env_with_dotenv
    merged_env,     \* the accumulator dict of find_and_merge_dotenv_files
    file_vars,      \* what parse_dotenv_file returned for each candidate
    read_outcome,   \* how reading each candidate ended
    found,          \* the return value of find_and_merge_dotenv_files
    result,         \* the return value of get_env_with_dotenv
    file_path,      \* MCIValidator.file_path
    doc,            \* the document file_path names, as it is on disk
    toolset_files,  \* the files present in <document directory>/mci
    path_cmds,      \* the commands shutil.which resolves
    schema_data,    \* MCIValidator.schema_data
    val,            \* validate_schema: position, errors, warnings, outcome
    hist,           \* what the running validate_schema call has done so far
    validators,     \* the MCIValidator instances whose calls run concurrently
    attrs,          \* the schema_data attribute of each concurrent instance
    session,        \* a caller of get_env_with_dotenv: the mappings it holds
    io,             \* one file operation step by step, and the open handles
    conv            \* a call of MCIToolConverter: argument and return value

envVars == <<fs, environ, additional_env, pc, merged_env, file_vars,
             read_outcome, found, result>>

valVars == <<file_path, doc, toolset_files, path_cmds, schema_data, val, hist>>

concVars == <<validators, attrs>>

auxVars == <<session, io, conv>>

vars == <<envVars, valVars, concVars, auxVars>>

(***************************************************************************)
(* Text helpers                                                            *)
(***************************************************************************)

\* The characters str.strip() removes and \s matches.
Whitespace == {" ", "\t"}

\* [A-Za-z_] over the model's alphabet.
IdStartChars ==
    {"A", "B", "C", "_", "e", "x", "p", "o", "r", "t", "E", "X", "P", "O", "R", "T"}

\* [A-Za-z0-9_] over the model's alphabet.
IdChars == IdStartChars \cup {"0", "1", "2", "3", "4", "9"}

RECURSIVE LStrip(_)
LStrip(s) ==
    IF s = <<>> THEN s
    ELSE IF Head(s) \in Whitespace THEN LStrip(Tail(s)) ELSE s

RECURSIVE RStrip(_)
RStrip(s) ==
    IF s = <<>> THEN s
    ELSE IF s[Len(s)] \in Whitespace THEN RStrip(SubSeq(s, 1, Len(s) - 1)) ELSE s

\* str.strip()
Strip(s) == RStrip(LStrip(s))

\* str.startswith(p)
StartsWith(s, p) == Len(s) >= Len(p) /\ SubSeq(s, 1, Len(p)) = p

\* str.endswith(p)
EndsWith(s, p) == Len(s) >= Len(p) /\ SubSeq(s, Len(s) - Len(p) + 1, Len(s)) = p

\* s[n:]
DropFirst(s, n) == SubSeq(s, n + 1, Len(s))

\* The characters of a text as one string (a dict key or value).
RECURSIVE Join(_)
Join(s) == IF s = <<>> THEN "" ELSE Head(s) \o Join(Tail(s))

\* Length of the longest prefix of s matching [A-Za-z_][A-Za-z0-9_]*.
RECURSIVE IdRun(_, _)
IdRun(s, i) ==
    IF i > Len(s) THEN i - 1
    ELSE IF s[i] \in IdChars THEN IdRun(s, i + 1) ELSE i - 1

KeyLen(s) ==
    IF s = <<>> \/ Head(s) \notin IdStartChars THEN 0 ELSE IdRun(s, 2)

NoMatch == [matched |-> FALSE, key |-> <<>>, value |-> <<>>]

\* re.match(r"^([A-Za-z_][A-Za-z0-9_]*)\s*=\s*(.*)$", line)
MatchAssignment(line) ==
    LET k == KeyLen(line) IN
    IF k = 0 THEN NoMatch
    ELSE LET rest == LStrip(DropFirst(line, k)) IN
         IF rest # <<>> /\ Head(rest) = "="
         THEN [matched |-> TRUE, key |-> SubSeq(line, 1, k),
               value |-> LStrip(Tail(rest))]
         ELSE NoMatch

DQ == <<"\"">>
SQ == <<"'">>

\* Mutant of Unquote: the two outer quotes need not be of the same kind.
Unquote_AnyPair(value) ==
    IF /\ Len(value) >= 2
       /\ Head(value) \in {"\"", "'"}
       /\ value[Len(value)] \in {"\"", "'"}
    THEN SubSeq(value, 2, Len(value) - 1)
    ELSE value

\* Removal of one pair of matching outer quotes.
Unquote(value) ==
    IF Len(value) >= 2
    THEN IF StartsWith(value, DQ) /\ EndsWith(value, DQ)
         THEN SubSeq(value, 2, Len(value) - 1)
         ELSE IF StartsWith(value, SQ) /\ EndsWith(value, SQ)
              THEN SubSeq(value, 2, Len(value) - 1)
              ELSE value
    ELSE value

ExportPrefix == <<"e", "x", "p", "o", "r", "t", " ">>

(***************************************************************************)
(* dict helpers                                                            *)
(***************************************************************************)

EmptyDict == <<>>

\* d[k] = v
DictSet(d, k, v) ==
    [x \in DOMAIN d \cup {k} |-> IF x = k THEN v ELSE d[x]]

\* Mutant of DictUpdate: an empty value does not replace a value.
DictUpdate_SkipEmpty(d, e) ==
    [x \in DOMAIN d \cup DOMAIN e |->
        IF x \in DOMAIN e /\ (x \notin DOMAIN d \/ e[x] # "") THEN e[x] ELSE d[x]]

\* d.update(e)
DictUpdate(d, e) ==
    [x \in DOMAIN d \cup DOMAIN e |-> IF x \in DOMAIN e THEN e[x] ELSE d[x]]

(***************************************************************************)
(* parse_dotenv_file                                                       *)
(***************************************************************************)

\* Mutant of ParseLine: a line that does not match discards the entries parsed
\* so far.
ParseLine_ResetOnMalformed(env_vars, raw) ==
    LET stripped == Strip(raw) IN
    IF stripped = <<>> \/ StartsWith(stripped, <<"#">>) THEN env_vars
    ELSE LET line == IF StartsWith(stripped, ExportPrefix)
                     THEN Strip(DropFirst(stripped, 7))
                     ELSE stripped
             m == MatchAssignment(line)
         IN IF m.matched
            THEN DictSet(env_vars, Join(m.key), Join(Unquote(m.value)))
            ELSE EmptyDict

\* Mutant of ParseLine: the export prefix is not removed.
ParseLine_KeepExport(env_vars, raw) ==
    LET stripped == Strip(raw) IN
    IF stripped = <<>> \/ StartsWith(stripped, <<"#">>) THEN env_vars
    ELSE LET m == MatchAssignment(stripped)
         IN IF m.matched
            THEN DictSet(env_vars, Join(m.key), Join(Unquote(m.value)))
            ELSE env_vars

\* One iteration of the loop over the file's lines.
ParseLine(env_vars, raw) ==
    LET stripped == Strip(raw) IN
    IF stripped = <<>> \/ StartsWith(stripped, <<"#">>) THEN env_vars
    ELSE LET line == IF StartsWith(stripped, ExportPrefix)
                     THEN Strip(DropFirst(stripped, 7))
                     ELSE stripped
             m == MatchAssignment(line)
         IN IF m.matched
            THEN DictSet(env_vars, Join(m.key), Join(Unquote(m.value)))
            ELSE env_vars

\* env_vars after the loop has consumed the first n lines.
RECURSIVE ParseLines(_, _)
ParseLines(lines, n) ==
    IF n = 0 THEN EmptyDict
    ELSE ParseLine(ParseLines(lines, n - 1), lines[n])

\* How the read of a file ends: "absent" (the existence test of
\* parse_dotenv_file fails), "failed" (OSError or UnicodeDecodeError from open
\* or from the iteration), "ok".
ReadOutcome(file) ==
    IF ~file.exists \/ file.fault \in {"stat", "vanish"} THEN "absent"
    ELSE IF file.fault \in {"open", "read"} THEN "failed"
    ELSE "ok"

\* Number of lines the loop consumed before it ended.
LinesConsumed(file) ==
    CASE ReadOutcome(file) = "absent" -> 0
      [] file.fault = "open" -> 0
      [] file.fault = "read" -> file.at
      [] OTHER -> Len(file.content)

\* Mutant of parse_dotenv_file: env_vars is a dict kept across calls, which
\* still holds what the last parse of the previous resolution left in it.
parse_dotenv_file_KeptDict(file) ==
    DictUpdate(session.parsed.vars[Len(fs)],
               ParseLines(file.content, LinesConsumed(file)))

\* The except clause passes and the function returns env_vars as the loop left
\* it.
parse_dotenv_file(file) == ParseLines(file.content, LinesConsumed(file))

(***************************************************************************)
(* Loaded document values (what json.load and yaml.safe_load return)       *)
(***************************************************************************)

\* Every value has the same four fields: t is the Python type, s the text of a
\* str or int, keys the keys of a dict in insertion order, items the elements
\* of a list or the values of a dict.
Value(t, s, keys, items) == [t |-> t, s |-> s, keys |-> keys, items |-> items]

VNone == Value("none", "", <<>>, <<>>)
VStr(s) == Value("str", s, <<>>, <<>>)
VInt(s) == Value("int", s, <<>>, <<>>)
VList(items) == Value("list", "", <<>>, items)
VDict(keys, items) == Value("dict", "", keys, items)

\* bool(v)
IsTruthy(v) ==
    CASE v.t = "none" -> FALSE
      [] v.t = "str" -> v.s # ""
      [] v.t = "int" -> v.s # "0"
      [] OTHER -> Len(v.items) > 0

HasKey(d, k) == \E i \in 1..Len(d.keys) : d.keys[i] = k

\* d.get(k, default) for a dict d
DictGet(d, k, default) ==
    IF HasKey(d, k)
    THEN d.items[CHOOSE i \in 1..Len(d.keys) : d.keys[i] = k]
    ELSE default

(***************************************************************************)
(* Result types                                                            *)
(***************************************************************************)

NoLocation == "<none>"

\* ValidationError(message=...): location defaults to None.
ValidationError(message) == [message |-> message, location |-> NoLocation]

ValidationWarning(message, suggestion) ==
    [message |-> message, suggestion |-> suggestion]

ValidationResult(errors, warnings, is_valid) ==
    [errors |-> errors, warnings |-> warnings, is_valid |-> is_valid]

(***************************************************************************)
(* MCIConfig.validate_schema: the schema engine behind a total wrapper     *)
(***************************************************************************)

\* str(file_path)
PathStr(path) == path.dir \o "/" \o path.name \o path.suffix

\* What MCIClient(schema_file_path, env_vars) can do: return, raise
\* MCIClientError, raise FileNotFoundError, raise any other exception; text is
\* str(e).
EngineOutcomes ==
    { [kind |-> "ok", text |-> ""],
      [kind |-> "MCIClientError", text |-> "Invalid schema: tools is required"],
      [kind |-> "MCIClientError", text |-> ""],
      [kind |-> "FileNotFoundError", text |-> "[Errno 2] No such file or directory"],
      [kind |-> "Exception", text |-> "boom"] }

\* Mutant of MCIConfig_validate_schema: the engine's own error is prefixed too.
MCIConfig_validate_schema_Prefixed(path, outcome) ==
    CASE outcome.kind = "ok" -> <<TRUE, "">>
      [] outcome.kind = "FileNotFoundError" -> <<FALSE, "File not found: " \o PathStr(path)>>
      [] OTHER -> <<FALSE, "Unexpected error: " \o outcome.text>>

\* (is_valid, error_message)
MCIConfig_validate_schema(path, outcome) ==
    CASE outcome.kind = "ok" -> <<TRUE, "">>
      [] outcome.kind = "MCIClientError" -> <<FALSE, outcome.text>>
      [] outcome.kind = "FileNotFoundError" -> <<FALSE, "File not found: " \o PathStr(path)>>
      [] OTHER -> <<FALSE, "Unexpected error: " \o outcome.text>>

(***************************************************************************)
(* MCIValidator._load_schema_data                                          *)
(***************************************************************************)

\* json.load accepts JSON text; yaml.safe_load accepts YAML text, and JSON text
\* as well.
JsonParses(d) == d.text = "json"
YamlParses(d) == d.text \in {"json", "yaml"}

Loaded(data) == [raised |-> FALSE, text |-> "", data |-> data]
LoadError(text) == [raised |-> TRUE, text |-> text, data |-> VNone]

\* Mutant of LoadSchemaData: a document with any other suffix is parsed as YAML.
LoadSchemaData_YamlFallback(path, d) ==
    IF ~d.exists THEN LoadError("Schema file not found: " \o PathStr(path))
    ELSE IF d.denied THEN LoadError("[Errno 13] Permission denied")
    ELSE IF path.suffix = ".json"
         THEN IF JsonParses(d) THEN Loaded(d.data)
              ELSE LoadError("Expecting value: line 1 column 1 (char 0)")
    ELSE IF YamlParses(d) THEN Loaded(d.data)
         ELSE LoadError("while scanning a simple key")

\* The outcome of _load_schema_data: the exception's text when it raises, the
\* value stored in schema_data when it returns.
LoadSchemaData(path, d) ==
    IF ~d.exists THEN LoadError("Schema file not found: " \o PathStr(path))
    ELSE IF d.denied THEN LoadError("[Errno 13] Permission denied")
    ELSE IF path.suffix = ".json"
         THEN IF JsonParses(d) THEN Loaded(d.data)
              ELSE LoadError("Expecting value: line 1 column 1 (char 0)")
    ELSE IF path.suffix \in {".yaml", ".yml"}
         THEN IF YamlParses(d) THEN Loaded(d.data)
              ELSE LoadError("while scanning a simple key")
    ELSE LoadError("Unsupported file format: " \o path.suffix)

(***************************************************************************)
(* The supplementary checks                                                *)
(***************************************************************************)

CheckDone(warnings) == [raised |-> FALSE, exc |-> "", warnings |-> warnings]
CheckRaised(exc) == [raised |-> TRUE, exc |-> exc, warnings |-> <<>>]

\* The outcome of a check that has not run.
NoCheck == CheckDone(<<>>)

\* The toolset names of the model that are absolute paths.
AbsoluteNames == {"/opt/db"}

\* mci_dir / f"{toolset}.mci.json" and its .mci.yaml sibling, as str: the /
\* of pathlib drops mci_dir when the right operand is an absolute path.
ToolsetJson(path, name) ==
    IF name \in AbsoluteNames THEN name \o ".mci.json"
    ELSE path.dir \o "/mci/" \o name \o ".mci.json"

ToolsetYaml(path, name) ==
    IF name \in AbsoluteNames THEN name \o ".mci.yaml"
    ELSE path.dir \o "/mci/" \o name \o ".mci.yaml"

\* The loop of check_toolset_files over the elements of `toolsets`.
RECURSIVE ToolsetWarnings(_, _, _)
ToolsetWarnings(items, path, files) ==
    IF items = <<>> THEN <<>>
    ELSE LET toolset == Head(items)
             missing ==
                 /\ toolset.t = "str"
                 /\ ToolsetJson(path, toolset.s) \notin files
                 /\ ToolsetYaml(path, toolset.s) \notin files
             w == ValidationWarning(
                     "Toolset file not found: " \o toolset.s,
                     "Create " \o ToolsetJson(path, toolset.s) \o " or "
                        \o ToolsetYaml(path, toolset.s)
                        \o ", or update the toolset reference")
         IN (IF missing THEN <<w>> ELSE <<>>)
                \o ToolsetWarnings(Tail(items), path, files)

\* self.schema_data.get raises AttributeError on a value that is truthy and
\* not a dict.
check_toolset_files(data, path, files) ==
    IF ~IsTruthy(data) THEN CheckDone(<<>>)
    ELSE IF data.t # "dict" THEN CheckRaised("AttributeError")
    ELSE LET toolsets == DictGet(data, "toolsets", VList(<<>>)) IN
         IF ~IsTruthy(toolsets) THEN CheckDone(<<>>)
         ELSE IF toolsets.t # "list" THEN CheckDone(<<>>)
         ELSE CheckDone(ToolsetWarnings(toolsets.items, path, files))

\* The loop of check_mcp_commands over mcp_servers.items(), from entry i on;
\* shutil.which raises TypeError on a command that is not a str.
RECURSIVE McpScan(_, _, _, _)
McpScan(servers, i, cmds, acc) ==
    IF i > Len(servers.keys) THEN CheckDone(acc)
    ELSE LET server_name == servers.keys[i]
             server_config == servers.items[i]
         IN IF server_config.t # "dict" THEN McpScan(servers, i + 1, cmds, acc)
            ELSE LET command == DictGet(server_config, "command", VNone) IN
                 IF ~IsTruthy(command) THEN McpScan(servers, i + 1, cmds, acc)
                 ELSE IF command.t # "str" THEN CheckRaised("TypeError")
                 ELSE IF command.s \in cmds THEN McpScan(servers, i + 1, cmds, acc)
                 ELSE McpScan(servers, i + 1, cmds,
                        Append(acc, ValidationWarning(
                            "MCP server command not found in PATH: " \o command.s
                                \o " (server: " \o server_name \o ")",
                            "Install the command or ensure it's in your PATH")))

check_mcp_commands(data, cmds) ==
    IF ~IsTruthy(data) THEN CheckDone(<<>>)
    ELSE IF data.t # "dict" THEN CheckRaised("AttributeError")
    ELSE LET mcp_servers == DictGet(data, "mcp_servers", VDict(<<>>, <<>>)) IN
         IF ~IsTruthy(mcp_servers) THEN CheckDone(<<>>)
         ELSE IF mcp_servers.t # "dict" THEN CheckDone(<<>>)
         ELSE McpScan(mcp_servers, 1, cmds, <<>>)

(***************************************************************************)
(* The candidate files and the inputs of a resolution                      *)
(***************************************************************************)

\* Number of candidate files find_and_merge_dotenv_files looks for.
NumCandidates == 4

\* The candidates relative to project_root, lowest precedence first.
Candidates == <<"mci/.env", "mci/.env.mci", ".env", ".env.mci">>

CandidateIds == 1..NumCandidates

\* Longest file of the model, in lines.
MaxLines == 3

\* The digit that marks the values candidate i assigns.
Mark(i) == CASE i = 1 -> "1" [] i = 2 -> "2" [] i = 3 -> "3" [] OTHER -> "4"

\* The text of candidate i; a file of the model holds a prefix of it.
FileText(i) ==
    << <<"A", "=", Mark(i)>>,
       <<"e", "x", "p", "o", "r", "t", " ", "B", " ", "=", " ", "'", Mark(i), "'">>,
       <<" ", "#", " ", "A", "=", "9">>,
       <<"A", "=", "\"", Mark(i), "x", "\"">>,
       <<"9", "C", "=", "0">> >>

FileLines(i, n) == SubSeq(FileText(i), 1, n)

MissingFile == [exists |-> FALSE, content |-> <<>>, fault |-> "none", at |-> 0]

\* The states candidate i can be in: missing; readable with 1..MaxLines lines;
\* in a directory that cannot be searched ("stat"); present at the existence
\* test of find_and_merge_dotenv_files and gone at the one of
\* parse_dotenv_file ("vanish"); failing at open ("open": permission denied, a
\* directory, removed after the existence tests); failing during the iteration
\* after `at` lines were delivered ("read": I/O error, undecodable bytes past
\* the first buffer).
FileStates(i) ==
    {MissingFile}
    \cup {[exists |-> TRUE, content |-> FileLines(i, n), fault |-> "none", at |-> 0] :
            n \in 1..MaxLines}
    \cup {[exists |-> TRUE, content |-> FileLines(i, MaxLines), fault |-> f, at |-> 0] :
            f \in {"stat", "vanish", "open"}}
    \cup {[exists |-> TRUE, content |-> FileLines(i, MaxLines), fault |-> "read", at |-> k] :
            k \in 1..(MaxLines - 1)}

\* os.environ of the model.
Environs ==
    {EmptyDict, [A |-> "env"], [A |-> "env", C |-> "env"]}

\* additional_env: None, or a dict.
NoneEnv == [given |-> FALSE, map |-> EmptyDict]
AdditionalEnvs ==
    {NoneEnv}
    \cup {[given |-> TRUE, map |-> m] :
            m \in {EmptyDict, [A |-> "add"], [B |-> "add", C |-> "add"]}}

(***************************************************************************)
(* The inputs of a validation                                              *)
(***************************************************************************)

Suffixes == {".json", ".yaml", ".yml", ".JSON", ".txt", ""}

Paths == {[dir |-> "proj", name |-> "mci", suffix |-> x] : x \in Suffixes}

InlineToolset == VDict(<<"name">>, <<VStr("inline")>>)

\* Values of the `toolsets` field.
ToolsetsValues ==
    { VList(<<>>),
      VList(<<VStr("weather")>>),
      VList(<<VStr("weather"), VStr("db")>>),
      VList(<<VStr("db"), InlineToolset, VStr("db")>>),
      VList(<<VStr("/opt/db")>>),
      VStr("weather"),
      VNone }

Server(command) == VDict(<<"command">>, <<command>>)

\* Values of the `mcp_servers` field.
McpServersValues ==
    { VDict(<<>>, <<>>),
      VDict(<<"s">>, <<Server(VStr("npx"))>>),
      VDict(<<"s", "t">>, <<Server(VStr("uvx")), Server(VStr("npx"))>>),
      VDict(<<"s", "t">>, <<VDict(<<"url">>, <<VStr("http://h")>>), VStr("npx")>>),
      VDict(<<"s">>, <<Server(VStr(""))>>),
      VDict(<<"s", "t">>, <<Server(VStr("uvx")), Server(VInt("5"))>>),
      VList(<<VStr("npx")>>) }

BaseKeys == <<"schemaVersion">>
BaseItems == <<VStr("1.0")>>

\* What the document can hold: no value (an empty YAML file), a top-level
\* list, the empty mapping, and mappings with `toolsets`, with `mcp_servers`,
\* with both or with neither.
DataPool ==
    { VNone, VList(<<VStr("weather")>>), VDict(<<>>, <<>>), VDict(BaseKeys, BaseItems) }
    \cup {VDict(BaseKeys \o <<"toolsets">>, BaseItems \o <<t>>) : t \in ToolsetsValues}
    \cup {VDict(BaseKeys \o <<"mcp_servers">>, BaseItems \o <<m>>) : m \in McpServersValues}
    \cup { VDict(BaseKeys \o <<"toolsets", "mcp_servers">>,
                 BaseItems \o <<VList(<<VStr("weather"), VStr("db")>>),
                                VDict(<<"s", "t">>,
                                      <<Server(VStr("uvx")), Server(VStr("npx"))>>)>>) }

MissingDoc == [exists |-> FALSE, denied |-> FALSE, text |-> "garbage", data |-> VNone]

\* The document on disk: missing; present and unreadable; JSON text holding a
\* value of DataPool; YAML text that is not JSON; text that is neither.
DocStates ==
    { MissingDoc,
      [exists |-> TRUE, denied |-> TRUE, text |-> "garbage", data |-> VNone],
      [exists |-> TRUE, denied |-> FALSE, text |-> "garbage", data |-> VNone],
      [exists |-> TRUE, denied |-> FALSE, text |-> "yaml",
       data |-> VDict(BaseKeys \o <<"toolsets">>, BaseItems \o <<VList(<<VStr("db")>>)>>)] }
    \cup {[exists |-> TRUE, denied |-> FALSE, text |-> "json", data |-> d] : d \in DataPool}

DocDir == [dir |-> "proj", name |-> "mci", suffix |-> ""]

ToolsetFileSets ==
    { {},
      {ToolsetJson(DocDir, "weather")},
      {ToolsetYaml(DocDir, "weather")},
      {ToolsetJson(DocDir, "weather"), ToolsetYaml(DocDir, "db")},
      {ToolsetJson(DocDir, "/opt/db")} }

PathCmdSets == { {}, {"npx"}, {"npx", "uvx"} }

\* validate_schema calls made on the one validator of the model.
MaxCalls == 2

(***************************************************************************)
(* The state of each machine before it runs                               *)
(***************************************************************************)

NoResult == ValidationResult(<<>>, <<>>, FALSE)

NoEngine == [kind |-> "none", text |-> ""]

IdleVal == [pc |-> "idle", errors |-> <<>>, warnings |-> <<>>,
            result |-> NoResult, exc |-> ""]

\* The outcome of a _load_schema_data that has not run.
NoLoad == [raised |-> FALSE, text |-> "", data |-> VNone]

\* What the running call has done: the engine's outcome and what
\* MCIConfig.validate_schema returned for it, schema_data as the call found
\* it, the document the reload found and the reload's outcome, what each check
\* returned or raised, and how often each step ran.
NoHist == [calls |-> 0, engine |-> NoEngine, verdict |-> <<TRUE, "">>,
           before |-> VNone, seen |-> MissingDoc, load |-> NoLoad,
           toolsets_out |-> NoCheck, mcp_out |-> NoCheck,
           engine_calls |-> 0, reloads |-> 0, toolset_checks |-> 0, mcp_checks |-> 0]

EnvIdle ==
    /\ fs = [i \in CandidateIds |-> MissingFile]
    /\ environ = EmptyDict
    /\ additional_env = NoneEnv
    /\ pc = <<"idle", 0>>
    /\ merged_env = EmptyDict
    /\ file_vars = [i \in CandidateIds |-> EmptyDict]
    /\ read_outcome = [i \in CandidateIds |-> "pending"]
    /\ found = EmptyDict
    /\ result = EmptyDict

\* The one validator of the sequential runs, before any call, and its document.
ValidatorIdle ==
    /\ file_path = [dir |-> "proj", name |-> "mci", suffix |-> ".json"]
    /\ doc = MissingDoc
    /\ schema_data = VNone
    /\ val = IdleVal
    /\ hist = NoHist

ValIdle ==
    /\ ValidatorIdle
    /\ toolset_files = {}
    /\ path_cmds = {}

\* No concurrent instance exists.
ConcIdle ==
    /\ validators = <<>>
    /\ attrs = <<>>

\* A caller that has not called get_env_with_dotenv: the objects it holds
\* (identity and present content), the mappings as they were returned, what
\* parse_dotenv_file returned in the previous call, after which call the
\* caller wrote to an object, and the files, os.environ and additional_env as
\* they were before the first call.
NoSession ==
    [calls |-> 0, held |-> <<>>, returned |-> <<>>,
     parsed |-> [vars |-> [i \in CandidateIds |-> EmptyDict],
                 outcome |-> [i \in CandidateIds |-> "pending"]],
     written_at |-> 0,
     world |-> [fs |-> [i \in CandidateIds |-> MissingFile],
                environ |-> EmptyDict, additional_env |-> NoneEnv]]

SessionIdle == session = NoSession

\* No file operation has been called and no handle is open.
NoIo ==
    [op |-> "none", file |-> MissingFile,
     path |-> [dir |-> "proj", name |-> "mci", suffix |-> ".json"],
     d |-> MissingDoc, pc |-> "idle", handles |-> {}, opened |-> 0,
     calls |-> 0, exc |-> FALSE]

HandlesIdle == io = NoIo

NoTool == [name |-> "", description |-> VNone, inputSchema |-> VNone]

\* No conversion has been called.
NoConv == [pc |-> "idle", tool |-> NoTool, schema_out |-> VNone, tool_out |-> NoTool]

ConvIdle == conv = NoConv

AuxIdle == SessionIdle /\ HandlesIdle /\ ConvIdle

(***************************************************************************)
(* get_env_with_dotenv as a state machine                                  *)
(***************************************************************************)

PcFile(i) == <<"file", i>>

EnvInit ==
    /\ fs \in {<<a, b, c, d>> : a \in FileStates(1), b \in FileStates(2),
                                c \in FileStates(3), d \in FileStates(4)}
    /\ environ \in Environs
    /\ additional_env \in AdditionalEnvs
    /\ pc = PcFile(1)
    /\ merged_env = EmptyDict
    /\ file_vars = [i \in CandidateIds |-> EmptyDict]
    /\ read_outcome = [i \in CandidateIds |-> "pending"]
    /\ found = EmptyDict
    /\ result = EmptyDict
    /\ ValIdle
    /\ ConcIdle
    /\ AuxIdle

\* Path.exists(): True, False, or PermissionError when the directory of the
\* file cannot be searched (Python 3.11 re-raises EACCES; later versions
\* answer False).
ExistsResults(file) ==
    IF file.fault = "stat" THEN {"raise", "no"}
    ELSE IF file.exists THEN {"yes"} ELSE {"no"}

\* Mutant of MergeStep: a key already in the accumulator keeps its value.
MergeStep_FirstWins(acc, file, there) ==
    IF there = "yes" THEN DictUpdate(parse_dotenv_file(file), acc) ELSE acc

\* Mutant of MergeStep: the parsed mapping replaces the accumulator.
MergeStep_Replace(acc, file, there) ==
    IF there = "yes" THEN parse_dotenv_file(file) ELSE acc

\* find_and_merge_dotenv_files, one candidate whose existence test answered
\* `there`: the parse and the update of the accumulator.
MergeStep(acc, file, there) ==
    IF there = "yes" THEN DictUpdate(acc, parse_dotenv_file(file)) ELSE acc

\* One candidate of find_and_merge_dotenv_files; an exception of the existence
\* test leaves the function, and get_env_with_dotenv with it.
MergeCandidate(i) ==
    /\ pc = PcFile(i)
    /\ \E there \in ExistsResults(fs[i]) :
        IF there = "raise"
        THEN /\ pc' = <<"raised", i>>
             /\ UNCHANGED <<merged_env, file_vars, read_outcome>>
        ELSE /\ merged_env' = MergeStep(merged_env, fs[i], there)
             /\ file_vars' = [file_vars EXCEPT ![i] =
                    IF there = "yes" THEN parse_dotenv_file(fs[i]) ELSE EmptyDict]
             /\ read_outcome' = [read_outcome EXCEPT ![i] =
                    IF there = "yes" THEN ReadOutcome(fs[i]) ELSE "absent"]
             /\ pc' = IF i < NumCandidates THEN PcFile(i + 1) ELSE <<"environ", 0>>
    /\ UNCHANGED <<fs, environ, additional_env, found, result>>
    /\ UNCHANGED <<valVars, concVars, auxVars>>

\* Mutant of ApplyEnviron: a key the files define keeps the files' value.
ApplyEnviron_FilesWin(acc, env) == DictUpdate(env, acc)

\* merged_env.update(os.environ)
ApplyEnviron(acc, env) == DictUpdate(acc, env)

\* find_and_merge_dotenv_files returns; the update with os.environ.
MergeEnviron ==
    /\ pc = <<"environ", 0>>
    /\ found' = merged_env
    /\ merged_env' = ApplyEnviron(merged_env, environ)
    /\ pc' = <<"additional", 0>>
    /\ UNCHANGED <<fs, environ, additional_env, file_vars, read_outcome, result>>
    /\ UNCHANGED <<valVars, concVars, auxVars>>

\* `if additional_env:` is false for None and for the empty dict.
Truthy(env) == env.given /\ env.map # EmptyDict

\* Mutant of ApplyAdditional: a key already merged keeps its value.
ApplyAdditional_KeepMerged(acc, env) ==
    IF Truthy(env) THEN DictUpdate(env.map, acc) ELSE acc

ApplyAdditional(acc, env) ==
    IF Truthy(env) THEN DictUpdate(acc, env.map) ELSE acc

\* The update with additional_env and the return.
MergeAdditional ==
    /\ pc = <<"additional", 0>>
    /\ merged_env' = ApplyAdditional(merged_env, additional_env)
    /\ result' = merged_env'
    /\ pc' = <<"done", 0>>
    /\ UNCHANGED <<fs, environ, additional_env, file_vars, read_outcome, found>>
    /\ UNCHANGED <<valVars, concVars, auxVars>>

EnvNext ==
    \/ \E i \in CandidateIds : MergeCandidate(i)
    \/ MergeEnviron
    \/ MergeAdditional

SpecEnv == EnvInit /\ [][EnvNext]_vars

Done == pc = <<"done", 0>>

(***************************************************************************)
(* parse_dotenv_file on a wide range of lines                              *)
(***************************************************************************)

ParseKeys == { <<"A">>, <<"_", "B", "9">>, <<"e", "x", "p", "o", "r", "t">> }

\* 1, the empty value, "x", 'x', "x', a lone ", "", '"x"' and "x"x".
ParseValues ==
    { <<"1">>,
      <<>>,
      <<"\"", "x", "\"">>,
      <<"'", "x", "'">>,
      <<"\"", "x", "'">>,
      <<"\"">>,
      <<"\"", "\"">>,
      <<"'", "\"", "x", "\"", "'">>,
      <<"\"", "x", "\"", "x", "\"">> }

UpperExportPrefix == <<"E", "X", "P", "O", "R", "T", " ">>

\* The ways the model writes the assignment of v to k: K=V, the same with
\* whitespace around it and around =, after `export `, after `export` and two
\* spaces, and after `EXPORT `.
LineForms(k, v) ==
    { k \o <<"=">> \o v,
      <<" ">> \o k \o <<" ", "=", " ">> \o v \o <<" ">>,
      ExportPrefix \o k \o <<"=">> \o v,
      ExportPrefix \o <<" ">> \o k \o <<"=">> \o v,
      UpperExportPrefix \o k \o <<"=">> \o v }

\* A blank line, a line of whitespace, a comment, and lines without =, with
\* an empty key and with a key that starts with a digit.
OtherLines ==
    { <<>>,
      <<" ", "\t">>,
      <<" ", "#", "A", "=", "9">>,
      <<"A">>,
      <<"=", "3">>,
      <<"9", "A", "=", "1">> }

SubjectLines ==
    UNION {LineForms(k, v) : k \in ParseKeys, v \in ParseValues} \cup OtherLines

\* The lines around the subject line of a file.
ContextLines ==
    { <<"A", "=", "0">>,
      <<"e", "x", "p", "o", "r", "t", "=", "0">>,
      <<"#", " ", "A", "=", "9">>,
      <<"9", "A", "=", "1">>,
      <<>> }

\* The texts of at most MaxLines lines: one subject line at any place among
\* context lines.
ParseTexts ==
    UNION { { SubSeq(c, 1, at - 1) \o <<l>> \o SubSeq(c, at, Len(c)) :
                c \in [1..n -> ContextLines], at \in 1..(n + 1), l \in SubjectLines } :
            n \in 0..(MaxLines - 1) }

\* Only <root>/mci/.env exists, and it can be read; os.environ is empty and no
\* additional_env is given, so that the resolution returns what
\* parse_dotenv_file returned.
ParseInit ==
    /\ fs \in { <<[exists |-> TRUE, content |-> t, fault |-> "none", at |-> 0],
                  MissingFile, MissingFile, MissingFile>> : t \in ParseTexts }
    /\ environ = EmptyDict
    /\ additional_env = NoneEnv
    /\ pc = PcFile(1)
    /\ merged_env = EmptyDict
    /\ file_vars = [i \in CandidateIds |-> EmptyDict]
    /\ read_outcome = [i \in CandidateIds |-> "pending"]
    /\ found = EmptyDict
    /\ result = EmptyDict
    /\ ValIdle
    /\ ConcIdle
    /\ AuxIdle

SpecParse == ParseInit /\ [][EnvNext]_vars

\* parse_dotenv_file has returned for <root>/mci/.env.
Parsed == read_outcome[1] = "ok"

\* The lines of <root>/mci/.env.
Lines == fs[1].content

(***************************************************************************)
(* MCIValidator.validate_schema as a state machine                         *)
(***************************************************************************)

\* Mutant of ReturnInvalid: the result is marked valid.
ReturnInvalid_MarkedValid(v, errors) ==
    [v EXCEPT !.pc = "returned", !.errors = errors,
              !.result = ValidationResult(errors, v.warnings, TRUE)]

\* Mutant of ReturnInvalid: a warning tells that the checks were skipped.
ReturnInvalid_WithWarning(v, errors) ==
    [v EXCEPT !.pc = "returned", !.errors = errors,
              !.result = ValidationResult(errors,
                            Append(v.warnings,
                                   ValidationWarning("Additional checks skipped", "")),
                            FALSE)]

\* The return of an invalid result.
ReturnInvalid(v, errors) ==
    [v EXCEPT !.pc = "returned", !.errors = errors,
              !.result = ValidationResult(errors, v.warnings, FALSE)]

\* The fresh lists, the call of MCIConfig.validate_schema and the return on
\* an engine failure.
EngineStep(path, outcome) ==
    LET r == MCIConfig_validate_schema(path, outcome)
        v == [IdleVal EXCEPT !.pc = "reload"]
    IN IF ~r[1] THEN ReturnInvalid(v, Append(v.errors, ValidationError(r[2])))
       ELSE v

\* Mutant of ReloadStep: the exception of _load_schema_data propagates.
ReloadStep_Propagates(v, load) ==
    IF load.raised THEN [v EXCEPT !.pc = "raised", !.exc = load.text]
    ELSE [v EXCEPT !.pc = "toolsets"]

\* Mutant of ReloadStep: after a failed reload the checks run on the
\* schema_data the validator still holds.
ReloadStep_FallsThrough(v, load) == [v EXCEPT !.pc = "toolsets"]

\* The try around _load_schema_data: every exception becomes one error.
ReloadStep(v, load) ==
    IF load.raised
    THEN ReturnInvalid(v, Append(v.errors,
            ValidationError("Failed to load schema data: " \o load.text)))
    ELSE [v EXCEPT !.pc = "toolsets"]

\* warnings.extend(self.check_toolset_files())
ToolsetStep(v, check) ==
    IF check.raised THEN [v EXCEPT !.pc = "raised", !.exc = check.exc]
    ELSE [v EXCEPT !.pc = "mcp", !.warnings = v.warnings \o check.warnings]

\* Mutant of McpStep: the command warnings are put in front.
McpStep_Prepend(v, check) ==
    IF check.raised THEN [v EXCEPT !.pc = "raised", !.exc = check.exc]
    ELSE LET warnings == check.warnings \o v.warnings IN
         [v EXCEPT !.pc = "returned", !.warnings = warnings,
                   !.result = ValidationResult(v.errors, warnings, TRUE)]

\* warnings.extend(self.check_mcp_commands()) and the return of a valid result.
McpStep(v, check) ==
    IF check.raised THEN [v EXCEPT !.pc = "raised", !.exc = check.exc]
    ELSE LET warnings == v.warnings \o check.warnings IN
         [v EXCEPT !.pc = "returned", !.warnings = warnings,
                   !.result = ValidationResult(v.errors, warnings, TRUE)]

BetweenCalls == val.pc \in {"idle", "returned", "raised"}

ValInit ==
    /\ EnvIdle
    /\ file_path \in Paths
    /\ doc \in DocStates
    /\ toolset_files \in ToolsetFileSets
    /\ path_cmds \in PathCmdSets
    /\ schema_data = VNone
    /\ val = IdleVal
    /\ hist = NoHist
    /\ ConcIdle
    /\ AuxIdle

\* validate_schema is called: lines 73-84.
CallEngine ==
    /\ BetweenCalls
    /\ hist.calls < MaxCalls
    /\ \E outcome \in EngineOutcomes :
        /\ val' = EngineStep(file_path, outcome)
        /\ hist' = [NoHist EXCEPT !.calls = hist.calls + 1, !.engine = outcome,
                                  !.verdict = MCIConfig_validate_schema(file_path, outcome),
                                  !.before = schema_data,
                                  !.engine_calls = 1]
    /\ UNCHANGED <<file_path, doc, toolset_files, path_cmds, schema_data>>
    /\ UNCHANGED <<envVars, concVars, auxVars>>

\* Lines 86-91.
Reload ==
    /\ val.pc = "reload"
    /\ LET load == LoadSchemaData(file_path, doc) IN
        /\ val' = ReloadStep(val, load)
        /\ schema_data' = IF load.raised THEN schema_data ELSE load.data
    /\ hist' = [hist EXCEPT !.reloads = @ + 1, !.seen = doc,
                             !.load = LoadSchemaData(file_path, doc)]
    /\ UNCHANGED <<file_path, doc, toolset_files, path_cmds>>
    /\ UNCHANGED <<envVars, concVars, auxVars>>

\* Lines 94-95.
CheckToolsets ==
    /\ val.pc = "toolsets"
    /\ val' = ToolsetStep(val, check_toolset_files(schema_data, file_path, toolset_files))
    /\ hist' = [hist EXCEPT !.toolset_checks = @ + 1,
                             !.toolsets_out =
                                check_toolset_files(schema_data, file_path, toolset_files)]
    /\ UNCHANGED <<file_path, doc, toolset_files, path_cmds, schema_data>>
    /\ UNCHANGED <<envVars, concVars, auxVars>>

\* Lines 97-100.
CheckMcp ==
    /\ val.pc = "mcp"
    /\ val' = McpStep(val, check_mcp_commands(schema_data, path_cmds))
    /\ hist' = [hist EXCEPT !.mcp_checks = @ + 1,
                             !.mcp_out = check_mcp_commands(schema_data, path_cmds)]
    /\ UNCHANGED <<file_path, doc, toolset_files, path_cmds, schema_data>>
    /\ UNCHANGED <<envVars, concVars, auxVars>>

\* Between two calls the document is rewritten, removed or made unreadable.
DocChange ==
    /\ val.pc \in {"returned", "raised"}
    /\ hist.calls < MaxCalls
    /\ doc' \in DocStates \ {doc}
    /\ UNCHANGED <<file_path, toolset_files, path_cmds, schema_data, val, hist>>
    /\ UNCHANGED <<envVars, concVars, auxVars>>

ValNext ==
    \/ CallEngine
    \/ Reload
    \/ CheckToolsets
    \/ CheckMcp
    \/ DocChange

SpecVal == ValInit /\ [][ValNext]_vars

Returned == val.pc = "returned"


(***************************************************************************)
(* validate_schema calls on distinct instances, interleaved                *)
(***************************************************************************)

\* Number of MCIValidator instances whose calls are interleaved.
MaxValidators == 2

Instances == 1..MaxValidators

\* Every instance validates a document of its own, all in one directory.
ConcName(i) == CASE i = 1 -> "mci" [] i = 2 -> "alt" [] OTHER -> "extra"

ConcPath(i) == [dir |-> "proj", name |-> ConcName(i), suffix |-> ".json"]

\* What a document of a concurrent run can hold.
ConcDocs ==
    { MissingDoc,
      [exists |-> TRUE, denied |-> FALSE, text |-> "json",
       data |-> VList(<<VStr("weather")>>)],
      [exists |-> TRUE, denied |-> FALSE, text |-> "json",
       data |-> VDict(BaseKeys \o <<"toolsets">>,
                      BaseItems \o <<VList(<<VStr("weather"), VStr("db")>>)>>)],
      [exists |-> TRUE, denied |-> FALSE, text |-> "json",
       data |-> VDict(BaseKeys \o <<"mcp_servers">>,
                      BaseItems \o <<VDict(<<"s", "t">>,
                                           <<Server(VStr("uvx")), Server(VStr("npx"))>>)>>)] }

\* What the engine answers for the document of an instance.
ConcEngines ==
    { [kind |-> "ok", text |-> ""],
      [kind |-> "MCIClientError", text |-> "Invalid schema: tools is required"] }

\* Mutant of SchemaDataOwner: schema_data is one attribute shared by all
\* instances.
SchemaDataOwner_Shared(i) == 1

\* self.schema_data is an attribute of the instance, created by __init__.
SchemaDataOwner(i) == i

\* validate_schema run from its first line to its last with nothing else
\* running: the final state of the call.
RunAlone(path, d, outcome, files, cmds) ==
    LET called == EngineStep(path, outcome) IN
    IF called.pc # "reload" THEN called
    ELSE LET load == LoadSchemaData(path, d)
             reloaded == ReloadStep(called, load)
         IN IF reloaded.pc # "toolsets" THEN reloaded
            ELSE LET checked ==
                        ToolsetStep(reloaded, check_toolset_files(load.data, path, files))
                 IN IF checked.pc # "mcp" THEN checked
                    ELSE McpStep(checked, check_mcp_commands(load.data, cmds))

InCall(i) == validators[i].val.pc \in {"reload", "toolsets", "mcp"}

\* Instance i takes a step to state v; overlapped records that another
\* instance was inside its call at that moment.
Advance(i, v) ==
    validators' = [validators EXCEPT ![i].val = v,
                      ![i].overlapped = @ \/ \E j \in Instances \ {i} : InCall(j)]

ConcInit ==
    /\ EnvIdle
    /\ ValidatorIdle
    /\ toolset_files \in ToolsetFileSets
    /\ path_cmds \in PathCmdSets
    /\ validators \in
          { [i \in Instances |->
                [file_path |-> ConcPath(i), doc |-> ds[i], engine |-> es[i],
                 val |-> IdleVal, overlapped |-> FALSE]] :
              ds \in [Instances -> ConcDocs], es \in [Instances -> ConcEngines] }
    /\ attrs = [i \in Instances |-> VNone]
    /\ AuxIdle

\* Lines 73-84 on instance i.
ConcCallEngine(i) ==
    /\ validators[i].val.pc = "idle"
    /\ Advance(i, EngineStep(validators[i].file_path, validators[i].engine))
    /\ UNCHANGED attrs
    /\ UNCHANGED <<envVars, valVars, auxVars>>

\* Lines 86-91 on instance i.
ConcReload(i) ==
    /\ validators[i].val.pc = "reload"
    /\ LET load == LoadSchemaData(validators[i].file_path, validators[i].doc) IN
        /\ Advance(i, ReloadStep(validators[i].val, load))
        /\ attrs' = IF load.raised THEN attrs
                    ELSE [attrs EXCEPT ![SchemaDataOwner(i)] = load.data]
    /\ UNCHANGED <<envVars, valVars, auxVars>>

\* Lines 94-95 on instance i.
ConcCheckToolsets(i) ==
    /\ validators[i].val.pc = "toolsets"
    /\ Advance(i, ToolsetStep(validators[i].val,
                    check_toolset_files(attrs[SchemaDataOwner(i)],
                                        validators[i].file_path, toolset_files)))
    /\ UNCHANGED attrs
    /\ UNCHANGED <<envVars, valVars, auxVars>>

\* Lines 97-100 on instance i.
ConcCheckMcp(i) ==
    /\ validators[i].val.pc = "mcp"
    /\ Advance(i, McpStep(validators[i].val,
                    check_mcp_commands(attrs[SchemaDataOwner(i)], path_cmds)))
    /\ UNCHANGED attrs
    /\ UNCHANGED <<envVars, valVars, auxVars>>

ConcNext ==
    \E i \in Instances :
        \/ ConcCallEngine(i)
        \/ ConcReload(i)
        \/ ConcCheckToolsets(i)
        \/ ConcCheckMcp(i)

SpecConc == ConcInit /\ [][ConcNext]_vars

Finished(i) == validators[i].val.pc \in {"returned", "raised"}

(***************************************************************************)
(* get_env_with_dotenv called repeatedly by a caller that keeps and        *)
(* changes the mappings it was given                                       *)
(***************************************************************************)

\* Calls of get_env_with_dotenv one caller makes.
MaxResolves == 2

\* The candidates of these runs: missing; the lines `A=` and `B=<i>`; for the
\* two candidates under mci/ also the line `A=<i>`, and a file whose read
\* fails after one line was delivered.
SessionFiles(i) ==
    { MissingFile,
      [exists |-> TRUE, content |-> << <<"A", "=">>, <<"B", "=", Mark(i)>> >>,
       fault |-> "none", at |-> 0] }
    \cup (IF i <= 2
          THEN { [exists |-> TRUE, content |-> << <<"A", "=", Mark(i)>> >>,
                  fault |-> "none", at |-> 0],
                 [exists |-> TRUE, content |-> FileLines(i, MaxLines),
                  fault |-> "read", at |-> 1] }
          ELSE {})

\* os.environ: a variable may be empty, and its name is any text without `=`.
SessionEnvirons ==
    {EmptyDict, [A |-> ""], [A |-> "env"], "9X" :> "env"}

\* additional_env: any dict a caller passes.
SessionAdditionalEnvs ==
    {NoneEnv}
    \cup {[given |-> TRUE, map |-> m] : m \in {[A |-> ""], "A-B" :> "add", [B |-> "add"]}}

\* The identities of the objects a caller can hold.
EnvironRef == <<"os.environ", 0>>
AdditionalRef == <<"additional_env", 0>>

\* Mutant of ReturnedRef: get_env_with_dotenv returns os.environ itself.
ReturnedRef_Environ(n) == <<"os.environ", 0>>

\* The object the n-th call returns: the dict created at line 120 of that
\* call, which find_and_merge_dotenv_files returns and get_env_with_dotenv
\* updates and returns.
ReturnedRef(n) == <<"dict", n>>

CallsInit ==
    /\ fs \in {<<a, b, c, d>> : a \in SessionFiles(1), b \in SessionFiles(2),
                                c \in SessionFiles(3), d \in SessionFiles(4)}
    /\ environ \in SessionEnvirons
    /\ additional_env \in SessionAdditionalEnvs
    /\ pc = PcFile(1)
    /\ merged_env = EmptyDict
    /\ file_vars = [i \in CandidateIds |-> EmptyDict]
    /\ read_outcome = [i \in CandidateIds |-> "pending"]
    /\ found = EmptyDict
    /\ result = EmptyDict
    /\ ValIdle
    /\ ConcIdle
    /\ session = [NoSession EXCEPT !.world =
                    [fs |-> fs, environ |-> environ, additional_env |-> additional_env]]
    /\ HandlesIdle
    /\ ConvIdle

\* `return merged_env` (line 187): the caller holds the returned object.
Return ==
    /\ pc = <<"done", 0>>
    /\ session' = [session EXCEPT
                    !.calls = @ + 1,
                    !.held = Append(@, [ref |-> ReturnedRef(session.calls + 1),
                                        map |-> result]),
                    !.returned = Append(@, result)]
    /\ pc' = <<"caller", 0>>
    /\ UNCHANGED <<fs, environ, additional_env, merged_env, file_vars,
                   read_outcome, found, result>>
    /\ UNCHANGED <<valVars, concVars, io, conv>>

\* The next call of get_env_with_dotenv: its locals are new, merged_env is
\* the empty dict of line 120.
CallAgain ==
    /\ pc = <<"caller", 0>>
    /\ session.calls < MaxResolves
    /\ session' = [session EXCEPT
                    !.parsed = [vars |-> file_vars, outcome |-> read_outcome]]
    /\ pc' = PcFile(1)
    /\ merged_env' = EmptyDict
    /\ file_vars' = [i \in CandidateIds |-> EmptyDict]
    /\ read_outcome' = [i \in CandidateIds |-> "pending"]
    /\ found' = EmptyDict
    /\ result' = EmptyDict
    /\ UNCHANGED <<fs, environ, additional_env>>
    /\ UNCHANGED <<valVars, concVars, io, conv>>

\* The object with identity ref after obj[k] = v, given its content.
Written(held, ref, k, v) ==
    [n \in DOMAIN held |->
        IF held[n].ref = ref
        THEN [held[n] EXCEPT !.map = DictSet(held[n].map, k, v)]
        ELSE held[n]]

\* The caller assigns to a key of a mapping it was given; the assignment
\* reaches every holder of the same object.
CallerMutates ==
    /\ pc = <<"caller", 0>>
    /\ session.written_at = 0
    /\ \E n \in 1..Len(session.held), k \in {"A", "C"} :
        LET ref == session.held[n].ref IN
        /\ session' = [session EXCEPT
                        !.written_at = session.calls,
                        !.held = Written(session.held, ref, k, "w")]
        /\ environ' = IF ref = EnvironRef THEN DictSet(environ, k, "w") ELSE environ
        /\ additional_env' =
                IF ref = AdditionalRef
                THEN [additional_env EXCEPT !.map = DictSet(additional_env.map, k, "w")]
                ELSE additional_env
    /\ UNCHANGED <<fs, pc, merged_env, file_vars, read_outcome, found, result>>
    /\ UNCHANGED <<valVars, concVars, io, conv>>

CallsNext ==
    \/ \E i \in CandidateIds : MergeCandidate(i)
    \/ MergeEnviron
    \/ MergeAdditional
    \/ Return
    \/ CallAgain
    \/ CallerMutates

SpecCalls == CallsInit /\ [][CallsNext]_vars

(***************************************************************************)
(* parse_dotenv_file and _load_schema_data statement by statement, with    *)
(* the file handles of the process                                         *)
(***************************************************************************)

\* Calls of the two operations, in any order.
MaxOps == 2

\* Mutant of WithExit: the handle is closed only when the block ends normally.
WithExit_OnlyOnSuccess(handles, h, raised) ==
    IF raised THEN handles ELSE handles \ {h}

\* The end of a `with open(...) as f:` block: f is closed however the block
\* ends.
WithExit(handles, h, raised) == handles \ {h}

IoBetweenCalls == io.pc \in {"idle", "returned", "raised"}

\* parse_dotenv_file(file) or MCIValidator(path)._load_schema_data() is
\* called.
IoCall ==
    /\ IoBetweenCalls
    /\ io.calls < MaxOps
    /\ \/ \E file \in FileStates(1) :
            io' = [io EXCEPT !.op = "parse", !.file = file, !.pc = "exists",
                             !.calls = @ + 1, !.exc = FALSE]
       \/ \E path \in Paths, d \in DocStates :
            io' = [io EXCEPT !.op = "load", !.path = path, !.d = d,
                             !.pc = "exists", !.calls = @ + 1, !.exc = FALSE]
    /\ UNCHANGED <<envVars, valVars, concVars, session, conv>>

\* `if not file_path.exists()`: parse_dotenv_file returns the empty dict,
\* _load_schema_data raises FileNotFoundError; an exception of the test
\* itself leaves parse_dotenv_file.
IoExists ==
    /\ io.pc = "exists"
    /\ IF io.op = "parse"
       THEN \E there \in (IF io.file.fault = "vanish" THEN {"no"}
                          ELSE ExistsResults(io.file)) :
                io' = [io EXCEPT !.pc = CASE there = "yes" -> "open"
                                          [] there = "no" -> "returned"
                                          [] OTHER -> "raised"]
       ELSE io' = [io EXCEPT !.pc = IF io.d.exists THEN "open" ELSE "raised"]
    /\ UNCHANGED <<envVars, valVars, concVars, session, conv>>

\* open(file_path): a failure is caught by parse_dotenv_file and leaves
\* _load_schema_data; otherwise the process has one more handle.
IoOpen ==
    /\ io.pc = "open"
    /\ IF io.op = "parse"
       THEN IF io.file.fault = "open"
            THEN io' = [io EXCEPT !.pc = "returned"]
            ELSE io' = [io EXCEPT !.pc = "body", !.opened = @ + 1,
                                  !.handles = @ \cup {io.opened + 1}]
       ELSE IF io.d.denied
            THEN io' = [io EXCEPT !.pc = "raised"]
            ELSE io' = [io EXCEPT !.pc = "body", !.opened = @ + 1,
                                  !.handles = @ \cup {io.opened + 1}]
    /\ UNCHANGED <<envVars, valVars, concVars, session, conv>>

\* The body of the with block: the loop over the lines, or the parse selected
\* by the suffix; it ends normally or with an exception.
IoBody ==
    /\ io.pc = "body"
    /\ io' = [io EXCEPT !.pc = "exit",
                        !.exc = IF io.op = "parse"
                                THEN io.file.fault = "read"
                                ELSE LoadSchemaData(io.path, io.d).raised]
    /\ UNCHANGED <<envVars, valVars, concVars, session, conv>>

\* The with block is left; parse_dotenv_file catches the exception and
\* returns, _load_schema_data lets it propagate.
IoExit ==
    /\ io.pc = "exit"
    /\ io' = [io EXCEPT !.handles = WithExit(io.handles, io.opened, io.exc),
                        !.pc = IF io.exc /\ io.op = "load" THEN "raised"
                               ELSE "returned"]
    /\ UNCHANGED <<envVars, valVars, concVars, session, conv>>

HandlesInit ==
    /\ EnvIdle
    /\ ValIdle
    /\ ConcIdle
    /\ SessionIdle
    /\ HandlesIdle
    /\ ConvIdle

HandlesNext ==
    \/ IoCall
    \/ IoExists
    \/ IoOpen
    \/ IoBody
    \/ IoExit

SpecHandles == HandlesInit /\ [][HandlesNext]_vars

(***************************************************************************)
(* MCIToolConverter                                                        *)
(***************************************************************************)

EmptySchema == VDict(<<>>, <<>>)

\* {"name": {"type": "string"}}
NameProperty == VDict(<<"name">>, <<VDict(<<"type">>, <<VStr("string")>>)>>)

\* The fields an input schema of the model can carry besides `type`.
SchemaFields ==
    << [key |-> "properties", value |-> NameProperty],
       [key |-> "required", value |-> VList(<<VStr("name")>>)],
       [key |-> "description", value |-> VStr("d")] >>

\* The schema with the fields of `chosen`, in the order of SchemaFields, after
\* the fields of `first`.
RECURSIVE SchemaOf(_, _, _)
SchemaOf(first, chosen, n) ==
    IF n > Len(SchemaFields) THEN first
    ELSE LET rest == SchemaOf(first, chosen, n + 1) IN
         IF n \in chosen
         THEN VDict(<<SchemaFields[n].key>> \o rest.keys,
                    <<SchemaFields[n].value>> \o rest.items)
         ELSE rest

\* The input schemas: with the type object, with the type string and without
\* type, each with any of the other fields; and a bare property map.
Schemas ==
    { SchemaOf(first, chosen, 1) :
        first \in { EmptySchema,
                    VDict(<<"type">>, <<VStr("object")>>),
                    VDict(<<"type">>, <<VStr("string")>>) },
        chosen \in SUBSET (1..Len(SchemaFields)) }
    \cup {NameProperty}

\* The mci-py tools of the model: inputSchema and description are optional.
Tools ==
    { [name |-> "greet", description |-> d, inputSchema |-> s] :
        d \in {VNone, VStr(""), VStr("Greets")}, s \in Schemas \cup {VNone} }

\* Lines 75-82.
convert_input_schema(mci_schema) ==
    IF ~IsTruthy(mci_schema)
    THEN VDict(<<"type", "properties">>, <<VStr("object"), EmptySchema>>)
    ELSE IF ~HasKey(mci_schema, "type")
         THEN VDict(<<"type", "properties">>, <<VStr("object"), mci_schema>>)
         ELSE mci_schema

\* x or default
Or(x, default) == IF IsTruthy(x) THEN x ELSE default

\* Lines 43-51.
convert_to_mcp_tool(mci_tool) ==
    [name |-> mci_tool.name,
     description |-> Or(mci_tool.description, VStr("")),
     inputSchema |-> convert_input_schema(Or(mci_tool.inputSchema, EmptySchema))]

ConvInit ==
    /\ EnvIdle
    /\ ValIdle
    /\ ConcIdle
    /\ SessionIdle
    /\ HandlesIdle
    /\ conv \in {[NoConv EXCEPT !.tool = t] : t \in Tools}

\* convert_input_schema is called with the inputSchema of the tool.
ConvertInputSchema ==
    /\ conv.pc = "idle"
    /\ conv.tool.inputSchema.t = "dict"
    /\ conv' = [conv EXCEPT !.pc = "schema",
                            !.schema_out = convert_input_schema(conv.tool.inputSchema)]
    /\ UNCHANGED <<envVars, valVars, concVars, session, io>>

\* convert_to_mcp_tool is called with the tool.
ConvertToMcpTool ==
    /\ conv.pc = "idle"
    /\ conv' = [conv EXCEPT !.pc = "tool",
                            !.tool_out = convert_to_mcp_tool(conv.tool)]
    /\ UNCHANGED <<envVars, valVars, concVars, session, io>>

ConvNext ==
    \/ ConvertInputSchema
    \/ ConvertToMcpTool

SpecConv == ConvInit /\ [][ConvNext]_vars

(***************************************************************************)
(* Claims about the environment resolution                                 *)
(***************************************************************************)

FilesMerged == pc[1] \in {"additional", "done"}

\* The candidates whose parsed mapping defines key k.
Defining(k) == {i \in CandidateIds : k \in DOMAIN file_vars[i]}

FileKeys == UNION {DOMAIN file_vars[i] : i \in CandidateIds}

\* C1: once find_and_merge_dotenv_files has returned, every key some candidate
\* defines is mapped to the value of the highest-precedence candidate that
\* defines it (mci/.env < mci/.env.mci < .env < .env.mci).
C1_FilePrecedence ==
    FilesMerged =>
        \A k \in FileKeys :
            \A i \in Defining(k) :
                (\A j \in Defining(k) : j <= i) =>
                    k \in DOMAIN found /\ found[k] = file_vars[i][k]

\* C1 witness: all four candidates are read and define A with four different
\* values, and the merge holds the value of <root>/.env.mci.
C1_Witness ==
    /\ FilesMerged
    /\ \A i \in CandidateIds : read_outcome[i] = "ok" /\ "A" \in DOMAIN file_vars[i]
    /\ \A i, j \in CandidateIds : i # j => file_vars[i]["A"] # file_vars[j]["A"]
    /\ found["A"] = file_vars[NumCandidates]["A"]

\* C2: in the returned mapping, every key of os.environ that additional_env
\* does not hold has the value os.environ gives it.
C2_EnvironOutranksFiles ==
    Done =>
        \A k \in DOMAIN environ :
            k \notin DOMAIN additional_env.map =>
                k \in DOMAIN result /\ result[k] = environ[k]

\* C2 witness: a key of os.environ, absent from additional_env, that a
\* candidate file defines with another value.
C2_Witness ==
    /\ Done
    /\ \E k \in DOMAIN environ :
        /\ k \notin DOMAIN additional_env.map
        /\ \E i \in Defining(k) : file_vars[i][k] # environ[k]
        /\ result[k] = environ[k]

\* C3: in the returned mapping, every key of additional_env has the value
\* additional_env gives it.
C3_AdditionalWins ==
    Done =>
        \A k \in DOMAIN additional_env.map :
            k \in DOMAIN result /\ result[k] = additional_env.map[k]

\* C3 witness: a key of additional_env that os.environ and a candidate file
\* define with other values.
C3_Witness ==
    /\ Done
    /\ \E k \in DOMAIN additional_env.map :
        /\ k \in DOMAIN environ /\ environ[k] # additional_env.map[k]
        /\ \E i \in Defining(k) : file_vars[i][k] # additional_env.map[k]
        /\ result[k] = additional_env.map[k]

\* The sources of a resolution, lowest precedence first: the four parsed
\* candidates, os.environ, additional_env.
Sources ==
    [i \in 1..(NumCandidates + 2) |->
        IF i <= NumCandidates THEN file_vars[i]
        ELSE IF i = NumCandidates + 1 THEN environ
        ELSE additional_env.map]

\* C4: the key set of the returned mapping is the union of the key sets of the
\* sources, and a key keeps the value of a source when no higher-precedence
\* source mentions it.
C4_MergeRetainsKeys ==
    Done =>
        /\ DOMAIN result = UNION {DOMAIN Sources[i] : i \in DOMAIN Sources}
        /\ \A i \in DOMAIN Sources :
            \A k \in DOMAIN Sources[i] :
                (\A j \in DOMAIN Sources : j > i => k \notin DOMAIN Sources[j]) =>
                    result[k] = Sources[i][k]

\* C4 witness: a key only the lowest-precedence candidate defines is kept
\* although a higher-precedence candidate, os.environ and additional_env are
\* all non-empty.
C4_Witness ==
    /\ Done
    /\ environ # EmptyDict
    /\ additional_env.map # EmptyDict
    /\ \E k \in DOMAIN file_vars[1] :
        /\ \A j \in DOMAIN Sources : j > 1 => k \notin DOMAIN Sources[j]
        /\ \E j \in 2..NumCandidates : file_vars[j] # EmptyDict
        /\ result[k] = file_vars[1][k]

\* What a candidate contributes when every missing or unreadable file counts
\* as the empty mapping.
Contribution(i) ==
    IF read_outcome[i] = "ok" THEN file_vars[i] ELSE EmptyDict

RECURSIVE MergeContributions(_)
MergeContributions(n) ==
    IF n = 0 THEN EmptyDict
    ELSE DictUpdate(MergeContributions(n - 1), Contribution(n))

\* C5: the resolution never raises, and the returned mapping is the merge in
\* which every candidate that is missing or could not be read contributes the
\* empty mapping.
C5_AbsenceContributesEmpty ==
    /\ pc[1] # "raised"
    /\ Done =>
        result = ApplyAdditional(
                    ApplyEnviron(MergeContributions(NumCandidates), environ),
                    additional_env)

\* C6: whenever the read of a file fails, at open or during the iteration,
\* parse_dotenv_file returns the empty mapping.
C6_ReadFailureYieldsEmpty ==
    \A i \in CandidateIds :
        read_outcome[i] = "failed" => file_vars[i] = EmptyDict

(***************************************************************************)
(* Claims about the validation                                             *)
(***************************************************************************)

EngineFailed == hist.engine.kind \notin {"none", "ok"}

\* The document the reload found cannot be loaded: it is missing, unreadable,
\* named with an unsupported suffix, or unparsable in the format of its suffix.
Unloadable(path, d) ==
    \/ ~d.exists
    \/ d.denied
    \/ path.suffix \notin {".json", ".yaml", ".yml"}
    \/ path.suffix = ".json" /\ d.text # "json"
    \/ path.suffix \in {".yaml", ".yml"} /\ d.text = "garbage"

ReloadFailed == hist.reloads = 1 /\ Unloadable(file_path, hist.seen)

\* C7: every returned ValidationResult has is_valid true exactly when its
\* error list is empty.
C7_ValidityInvariant ==
    Returned => (val.result.is_valid <=> val.result.errors = <<>>)

\* C7 witness: a second call on a validator that loaded a document before
\* returns an invalid result with one error after a failed reload.
C7_Witness ==
    /\ Returned
    /\ hist.calls = 2
    /\ ReloadFailed
    /\ IsTruthy(schema_data)
    /\ ~val.result.is_valid
    /\ Len(val.result.errors) = 1

\* C8: a returned result with warnings is valid; an invalid result has no
\* warnings.
C8_WarningsOnlyOnValid ==
    Returned =>
        /\ val.result.warnings # <<>> => val.result.is_valid
        /\ ~val.result.is_valid => Len(val.result.warnings) = 0

\* C8 witness: a valid result that carries a toolset warning and a command
\* warning.
C8_Witness ==
    /\ Returned
    /\ val.result.is_valid
    /\ Len(val.result.warnings) >= 2
    /\ hist.toolset_checks = 1
    /\ hist.mcp_checks = 1

\* The one error of an invalid result.
OneError(message) ==
    /\ Returned
    /\ ~val.result.is_valid
    /\ val.result.errors = <<[message |-> message, location |-> NoLocation]>>

NoReloadNoCheck ==
    hist.reloads = 0 /\ hist.toolset_checks = 0 /\ hist.mcp_checks = 0

\* C9 as claimed: whenever the engine fails, the call has returned an invalid
\* result whose one error carries the engine's text unchanged, without
\* location, and has run neither the reload nor a check.
C9_EngineFailureVerbatim ==
    EngineFailed => OneError(hist.engine.text) /\ NoReloadNoCheck

\* C9 as amended: the one error carries the engine's text unchanged when the
\* engine raised MCIClientError, "File not found: <path>" when it raised
\* FileNotFoundError, and "Unexpected error: " followed by the text for any
\* other exception.
C9_EngineFailureMessage ==
    EngineFailed =>
        /\ NoReloadNoCheck
        /\ hist.engine.kind = "MCIClientError" => OneError(hist.engine.text)
        /\ hist.engine.kind = "FileNotFoundError" =>
                OneError("File not found: " \o PathStr(file_path))
        /\ hist.engine.kind \notin {"MCIClientError", "FileNotFoundError"} =>
                OneError("Unexpected error: " \o hist.engine.text)

\* C9 witness: on a validator that holds an earlier document, the engine
\* raises MCIClientError and the result carries its text.
C9_Witness ==
    /\ EngineFailed
    /\ hist.engine.kind = "MCIClientError"
    /\ hist.engine.text # ""
    /\ IsTruthy(schema_data)
    /\ OneError(hist.engine.text)

\* C10: when the engine accepts the document and the reload fails, the call
\* has returned (not raised) an invalid result whose one error wraps the text
\* of the load exception, and no check has run.
C10_ReloadFailureTerminal ==
    hist.engine.kind = "ok" /\ ReloadFailed =>
        /\ hist.load.raised
        /\ OneError("Failed to load schema data: " \o hist.load.text)
        /\ val.exc = ""
        /\ hist.toolset_checks = 0
        /\ hist.mcp_checks = 0

\* C10 witness: the engine accepted a .json document that is gone at the
\* reload.
C10_Witness ==
    /\ hist.engine.kind = "ok"
    /\ ReloadFailed
    /\ file_path.suffix = ".json"
    /\ ~hist.seen.exists
    /\ OneError("Failed to load schema data: Schema file not found: proj/mci.json")

\* The engine accepted the document and the reload stored its content.
ChecksReached == hist.engine.kind = "ok" /\ hist.reloads = 1 /\ ~hist.load.raised

\* C11: whenever the engine accepts the document and the reload succeeds, the
\* call raises nothing, and the result it returns is valid with an empty error
\* list, whatever the loaded content, the toolset files and the search path.
C11_ChecksNeverRaise ==
    ChecksReached =>
        /\ val.pc # "raised"
        /\ hist.toolsets_out.raised = FALSE
        /\ hist.mcp_out.raised = FALSE
        /\ Returned => val.result.is_valid /\ val.result.errors = <<>>

\* The elements of a list-valued `toolsets` of the loaded content; none when
\* the field is absent or not a list.
DeclaredToolsets ==
    IF schema_data.t = "dict" /\ HasKey(schema_data, "toolsets")
    THEN LET toolsets == DictGet(schema_data, "toolsets", VNone) IN
         IF toolsets.t = "list" THEN toolsets.items ELSE <<>>
    ELSE <<>>

\* <document_directory>/mci/<name>.mci.json and .mci.yaml
ExpectedToolsetFiles(name) ==
    { file_path.dir \o "/mci/" \o name \o ".mci.json",
      file_path.dir \o "/mci/" \o name \o ".mci.yaml" }

\* The string elements, in order and with repetitions, that have neither file.
RECURSIVE MissingToolsets(_)
MissingToolsets(items) ==
    IF items = <<>> THEN <<>>
    ELSE (IF /\ Head(items).t = "str"
             /\ ExpectedToolsetFiles(Head(items).s) \cap toolset_files = {}
          THEN <<Head(items).s>> ELSE <<>>)
            \o MissingToolsets(Tail(items))

\* C12: check_toolset_files returns exactly one warning, naming the toolset,
\* for each string element of a list-valued `toolsets` that has neither
\* <document_directory>/mci/<name>.mci.json nor .mci.yaml, and no other warning.
C12_ToolsetCheckExact ==
    hist.toolset_checks = 1 =>
        LET names == MissingToolsets(DeclaredToolsets)
            out == hist.toolsets_out
        IN /\ ~out.raised
           /\ Len(out.warnings) = Len(names)
           /\ \A n \in 1..Len(names) :
                n <= Len(out.warnings) =>
                    out.warnings[n].message = "Toolset file not found: " \o names[n]

\* The entries of a mapping-valued `mcp_servers` of the loaded content.
DeclaredServers ==
    IF schema_data.t = "dict" /\ HasKey(schema_data, "mcp_servers")
    THEN LET mcp_servers == DictGet(schema_data, "mcp_servers", VNone) IN
         IF mcp_servers.t = "dict" THEN mcp_servers ELSE VDict(<<>>, <<>>)
    ELSE VDict(<<>>, <<>>)

\* Entry i specifies a command (a `command` field that is not empty) and the
\* command does not resolve on the search path.
Unresolved(servers, i) ==
    /\ servers.items[i].t = "dict"
    /\ HasKey(servers.items[i], "command")
    /\ LET command == DictGet(servers.items[i], "command", VNone) IN
        /\ IsTruthy(command)
        /\ ~(command.t = "str" /\ command.s \in path_cmds)

\* The messages expected for the entries from i on.
RECURSIVE UnresolvedMessages(_, _)
UnresolvedMessages(servers, i) ==
    IF i > Len(servers.keys) THEN <<>>
    ELSE (IF Unresolved(servers, i)
          THEN << "MCP server command not found in PATH: "
                    \o DictGet(servers.items[i], "command", VNone).s
                    \o " (server: " \o servers.keys[i] \o ")" >>
          ELSE <<>>)
            \o UnresolvedMessages(servers, i + 1)

\* C13: check_mcp_commands returns exactly one warning, naming the command and
\* the server, for each entry of `mcp_servers` whose command does not resolve
\* on the search path, and no other warning.
C13_CommandCheckExact ==
    hist.mcp_checks = 1 =>
        LET messages == UnresolvedMessages(DeclaredServers, 1)
            out == hist.mcp_out
        IN /\ ~out.raised
           /\ Len(out.warnings) = Len(messages)
           /\ \A n \in 1..Len(messages) :
                n <= Len(out.warnings) => out.warnings[n].message = messages[n]

\* The reload found the document and opened it.
Opened == hist.reloads = 1 /\ hist.seen.exists /\ ~hist.seen.denied

\* C14: a document the reload opens is parsed as JSON when its suffix is
\* .json and as YAML when it is .yaml or .yml; with any other suffix the
\* reload fails with the unsupported-format error, and validate_schema returns
\* an invalid result whose one error carries it.
C14_ReloadFormatSelection ==
    Opened =>
        /\ file_path.suffix = ".json" =>
                /\ hist.load.raised <=> hist.seen.text # "json"
                /\ ~hist.load.raised => schema_data = hist.seen.data
        /\ file_path.suffix \in {".yaml", ".yml"} =>
                /\ hist.load.raised <=> hist.seen.text = "garbage"
                /\ ~hist.load.raised => schema_data = hist.seen.data
        /\ file_path.suffix \notin {".json", ".yaml", ".yml"} =>
                /\ hist.load.raised
                /\ hist.load.text = "Unsupported file format: " \o file_path.suffix
                /\ OneError("Failed to load schema data: Unsupported file format: "
                                \o file_path.suffix)

\* C14 witness: the engine accepted mci.txt, which holds JSON text, and the
\* call returned the unsupported-format error.
C14_Witness ==
    /\ Opened
    /\ file_path.suffix = ".txt"
    /\ hist.seen.text = "json"
    /\ hist.seen.data.t = "dict"
    /\ OneError("Failed to load schema data: Unsupported file format: .txt")

\* C20: a call invokes the engine once, reloads the document at most once,
\* runs each check at most once, and ends by returning a result, never by
\* raising.
C20_TerminatesWithoutRetry ==
    /\ hist.calls > 0 => hist.engine_calls = 1
    /\ hist.reloads <= 1
    /\ hist.toolset_checks <= 1
    /\ hist.mcp_checks <= 1
    /\ val.pc # "raised"

RECURSIVE IsSubsequence(_, _)
IsSubsequence(a, b) ==
    IF a = <<>> THEN TRUE
    ELSE IF b = <<>> THEN FALSE
    ELSE IF Head(a) = Head(b) THEN IsSubsequence(Tail(a), Tail(b))
    ELSE IsSubsequence(a, Tail(b))

\* The message of a toolset warning for each string element of `toolsets`,
\* in declaration order.
RECURSIVE ToolsetMessages(_)
ToolsetMessages(items) ==
    IF items = <<>> THEN <<>>
    ELSE (IF Head(items).t = "str"
          THEN <<"Toolset file not found: " \o Head(items).s>> ELSE <<>>)
            \o ToolsetMessages(Tail(items))

\* The message of a command warning for each entry of `mcp_servers` that is a
\* mapping with a string command, in declaration order.
RECURSIVE CommandMessages(_, _)
CommandMessages(servers, i) ==
    IF i > Len(servers.keys) THEN <<>>
    ELSE (IF /\ servers.items[i].t = "dict"
             /\ DictGet(servers.items[i], "command", VNone).t = "str"
          THEN << "MCP server command not found in PATH: "
                    \o DictGet(servers.items[i], "command", VNone).s
                    \o " (server: " \o servers.keys[i] \o ")" >>
          ELSE <<>>)
            \o CommandMessages(servers, i + 1)

Messages(warnings) == [n \in 1..Len(warnings) |-> warnings[n].message]

\* C28: the warnings of a valid result are the toolset warnings followed by
\* the command warnings, each group in the declaration order of the elements
\* of `toolsets` and of the entries of `mcp_servers`.
C28_WarningOrder ==
    Returned /\ val.result.is_valid =>
        \E k \in 0..Len(val.result.warnings) :
            LET all == Messages(val.result.warnings) IN
            /\ IsSubsequence(SubSeq(all, 1, k), ToolsetMessages(DeclaredToolsets))
            /\ IsSubsequence(SubSeq(all, k + 1, Len(all)),
                              CommandMessages(DeclaredServers, 1))

\* C28 witness: a valid result with two toolset warnings followed by two
\* command warnings.
C28_Witness ==
    /\ Returned
    /\ val.result.is_valid
    /\ Messages(val.result.warnings) =
            << "Toolset file not found: weather",
               "Toolset file not found: db",
               "MCP server command not found in PATH: uvx (server: s)",
               "MCP server command not found in PATH: npx (server: t)" >>

\* C29: a call that has ended holds the outcome of a first call on a fresh
\* validator with the same engine outcome, document, toolset files and search
\* path; a call whose engine validation or reload fails leaves schema_data
\* as it found it.
C29_IndependentOfEarlierCalls ==
    hist.calls > 0 /\ BetweenCalls =>
        /\ val = RunAlone(file_path, hist.seen, hist.engine, toolset_files, path_cmds)
        /\ (EngineFailed \/ hist.load.raised) => schema_data = hist.before

\* C29 witness: the first call loaded a document with toolsets, and the second
\* call, whose reload failed, returned one error, no warning, and left that
\* document in schema_data.
C29_Witness ==
    /\ Returned
    /\ hist.calls = 2
    /\ hist.engine.kind = "ok"
    /\ hist.load.raised
    /\ DeclaredToolsets # <<>>
    /\ schema_data = hist.before
    /\ Len(val.result.errors) = 1
    /\ val.result.warnings = <<>>

(***************************************************************************)
(* Claims about concurrent validations                                     *)
(***************************************************************************)

\* C15: however the steps of the calls are interleaved, every call that has
\* ended holds exactly the outcome the same call has when it runs alone
\* against the same documents, toolset files and search path.
C15_NoInterference ==
    \A i \in Instances :
        Finished(i) =>
            validators[i].val =
                RunAlone(validators[i].file_path, validators[i].doc,
                         validators[i].engine, toolset_files, path_cmds)

\* C15 witness: two calls that overlapped have both returned valid results
\* with different warnings, each from its own document.
C15_Witness ==
    /\ \A i \in Instances : Finished(i) /\ validators[i].overlapped
    /\ validators[1].val.pc = "returned" /\ validators[2].val.pc = "returned"
    /\ validators[1].val.result.is_valid /\ validators[2].val.result.is_valid
    /\ validators[1].val.result.warnings # <<>>
    /\ validators[2].val.result.warnings # <<>>
    /\ validators[1].val.result.warnings # validators[2].val.result.warnings
    /\ attrs[1] # attrs[2]

(***************************************************************************)
(* Claims about parse_dotenv_file                                          *)
(***************************************************************************)

Blank(line) == Strip(line) = <<>>

Comment(line) == StartsWith(Strip(line), <<"#">>)

\* The text KEY = VALUE a line spells: the line without the whitespace around
\* it when that has the shape, otherwise what follows `export` and spaces.
Spelled(line) ==
    LET t == Strip(line) IN
    IF MatchAssignment(t).matched THEN t
    ELSE IF StartsWith(t, ExportPrefix) THEN LStrip(DropFirst(t, 7))
    ELSE t

\* The line is a well-formed assignment, with or without the export prefix.
WellFormed(line) == MatchAssignment(Spelled(line)).matched

AssignedKey(line) == Join(MatchAssignment(Spelled(line)).key)

AllWellFormed(lines) ==
    \A n \in 1..Len(lines) :
        Blank(lines[n]) \/ Comment(lines[n]) \/ WellFormed(lines[n])

AssignedKeys(lines) ==
    { AssignedKey(lines[n]) : n \in {m \in 1..Len(lines) : WellFormed(lines[m])} }

\* C16: when every line that is neither blank nor a comment is a well-formed
\* assignment, the key set of the returned mapping is exactly the set of keys
\* assigned on those lines (a key spelled `export` included).
C16_KeySetExact ==
    Parsed /\ AllWellFormed(Lines) => DOMAIN file_vars[1] = AssignedKeys(Lines)

\* What is left of a line for the match: the line without the whitespace
\* around it and without a leading `export `.
Processed(line) ==
    LET t == Strip(line) IN
    IF StartsWith(t, ExportPrefix) THEN Strip(DropFirst(t, 7)) ELSE t

\* Line n is parsed as an assignment, and no later line assigns its key again.
LastAssignment(lines, n) ==
    /\ MatchAssignment(Processed(lines[n])).matched
    /\ \A m \in (n + 1)..Len(lines) :
          MatchAssignment(Processed(lines[m])).matched =>
              MatchAssignment(Processed(lines[m])).key
                  # MatchAssignment(Processed(lines[n])).key

Quotes == {"\"", "'"}

\* At least two characters, the first a quote and the last the same quote.
Wrapped(v) == Len(v) >= 2 /\ v[1] \in Quotes /\ v[Len(v)] = v[1]

\* The value to store for raw value v.
StoredValue(v) == IF Wrapped(v) THEN SubSeq(v, 2, Len(v) - 1) ELSE v

\* C17: the value stored for a parsed assignment is the raw value without its
\* first and last character when the raw value has at least two characters
\* and starts and ends with the same quote character, and the raw value
\* unchanged otherwise.
C17_QuoteStripping ==
    Parsed =>
        \A n \in 1..Len(Lines) :
            LastAssignment(Lines, n) =>
                LET m == MatchAssignment(Processed(Lines[n])) IN
                /\ Join(m.key) \in DOMAIN file_vars[1]
                /\ file_vars[1][Join(m.key)] = Join(StoredValue(m.value))

\* C17 witness: the raw value '"x"' is stored as "x", one pair of quotes
\* removed and the inner pair kept.
C17_Witness ==
    /\ Parsed
    /\ \E n \in 1..Len(Lines) :
        /\ LastAssignment(Lines, n)
        /\ MatchAssignment(Processed(Lines[n])).value = <<"'", "\"", "x", "\"", "'">>
        /\ file_vars[1][Join(MatchAssignment(Processed(Lines[n])).key)] = "\"x\""

\* C18: the returned mapping is the one returned for the file without the
\* lines that are not well-formed assignments, and nothing is raised.
C18_MalformedSkipped ==
    /\ pc[1] # "raised"
    /\ Parsed =>
        LET kept == SelectSeq(Lines, WellFormed) IN
        file_vars[1] = ParseLines(kept, Len(kept))

\* C18 witness: a malformed line stands between two assignments, and both
\* assignments are in the returned mapping.
C18_Witness ==
    /\ Parsed
    /\ Len(Lines) = 3
    /\ WellFormed(Lines[1]) /\ WellFormed(Lines[3])
    /\ ~Blank(Lines[2]) /\ ~Comment(Lines[2]) /\ ~WellFormed(Lines[2])
    /\ AssignedKey(Lines[1]) # AssignedKey(Lines[3])
    /\ {AssignedKey(Lines[1]), AssignedKey(Lines[3])} \subseteq DOMAIN file_vars[1]

\* The text is K=V with the key directly followed by =.
Plain(t) == MatchAssignment(t).matched /\ t[KeyLen(t) + 1] = "="

\* What follows the prefix and the spaces after it.
AfterPrefix(line, prefix) == LStrip(DropFirst(Strip(line), Len(prefix)))

\* The line is the prefix, one or more spaces, and K=V.
PrefixedAssignment(line, prefix) ==
    StartsWith(Strip(line), prefix) /\ Plain(AfterPrefix(line, prefix))

\* The lines with line n replaced by the lines of r.
Replaced(lines, n, r) ==
    SubSeq(lines, 1, n - 1) \o r \o SubSeq(lines, n + 1, Len(lines))

\* C19: a file with a line `export K=V` yields the mapping of the same file
\* with the line K=V in its place, and a file with a line `EXPORT K=V` yields
\* the mapping of the same file without that line.
C19_ExportIgnored ==
    Parsed =>
        \A n \in 1..Len(Lines) :
            /\ PrefixedAssignment(Lines[n], ExportPrefix) =>
                    LET bare == Replaced(Lines, n, <<AfterPrefix(Lines[n], ExportPrefix)>>)
                    IN file_vars[1] = ParseLines(bare, Len(bare))
            /\ PrefixedAssignment(Lines[n], UpperExportPrefix) =>
                    LET without == Replaced(Lines, n, <<>>)
                    IN file_vars[1] = ParseLines(without, Len(without))

\* C19 witness: `export`, two spaces and an assignment to a key no other line
\* assigns; the key is in the returned mapping.
C19_Witness ==
    /\ Parsed
    /\ \E n \in 1..Len(Lines) :
        /\ PrefixedAssignment(Lines[n], ExportPrefix \o <<" ">>)
        /\ LastAssignment(Lines, n)
        /\ Len(Lines) > 1
        /\ Join(MatchAssignment(AfterPrefix(Lines[n], ExportPrefix)).key)
                \in DOMAIN file_vars[1] \ {"A"}

\* Line n is a well-formed assignment to a key that an earlier well-formed
\* line assigns and no later one does.
LastOfSeveral(lines, n) ==
    /\ WellFormed(lines[n])
    /\ \E m \in 1..(n - 1) :
          WellFormed(lines[m]) /\ AssignedKey(lines[m]) = AssignedKey(lines[n])
    /\ \A m \in (n + 1)..Len(lines) :
          WellFormed(lines[m]) => AssignedKey(lines[m]) # AssignedKey(lines[n])

\* C26: when several well-formed lines of the file assign the same key, the
\* returned mapping maps the key to the value of the last of them, whatever
\* the earlier values and the lines in between.
C26_LastAssignmentWins ==
    Parsed =>
        \A n \in 1..Len(Lines) :
            LastOfSeveral(Lines, n) =>
                /\ AssignedKey(Lines[n]) \in DOMAIN file_vars[1]
                /\ file_vars[1][AssignedKey(Lines[n])]
                        = Join(StoredValue(MatchAssignment(Spelled(Lines[n])).value))

(***************************************************************************)
(* Claims about repeated resolutions                                       *)
(***************************************************************************)

\* The files, os.environ and additional_env are as they were before the
\* first call.
WorldUntouched ==
    /\ fs = session.world.fs
    /\ environ = session.world.environ
    /\ additional_env = session.world.additional_env

KeyTexts == { <<"A">>, <<"B">>, <<"C">>, <<"9", "X">>, <<"A", "-", "B">> }

\* k is not empty and matches [A-Za-z_][A-Za-z0-9_]*.
WellFormedKey(k) ==
    \E t \in KeyTexts : Join(t) = k /\ t # <<>> /\ KeyLen(t) = Len(t)

\* C23: every key of the mapping get_env_with_dotenv returns is not empty
\* and matches [A-Za-z_][A-Za-z0-9_]*, whatever the files, os.environ and
\* additional_env hold.
C23_KeysWellFormed ==
    Done => \A k \in DOMAIN result : WellFormedKey(k)

\* C25: no call changes os.environ, a candidate file or the caller's
\* additional_env; the objects returned are distinct from each other and
\* from os.environ and additional_env; and every call returns the same
\* mapping, whatever the caller did to the mappings of earlier calls.
C25_ReadOnlySnapshot ==
    /\ WorldUntouched
    /\ \A n \in 1..Len(session.held) :
          /\ session.held[n].ref \notin {EnvironRef, AdditionalRef}
          /\ \A m \in 1..Len(session.held) :
                m # n => session.held[m].ref # session.held[n].ref
    /\ \A n \in 1..Len(session.returned) :
          session.returned[n] = session.returned[1]

\* C25 witness: the caller wrote to the mapping of the first call, which took
\* A from os.environ, and the second call returned what the first had
\* returned.
C25_Witness ==
    /\ session.calls = 2
    /\ session.written_at = 1
    /\ environ = [A |-> "env"]
    /\ session.held[1].map # session.returned[1]
    /\ session.held[1].map["A"] = "w"
    /\ session.returned[2] = session.returned[1]
    /\ session.returned[2]["A"] = "env"

\* The sources in the order of their precedence: the four candidates,
\* os.environ, additional_env.
SourceMaps ==
    file_vars \o <<environ, additional_env.map>>

\* C30: a key to which the highest-precedence source that defines it assigns
\* the empty string is mapped to the empty string, whatever the sources of
\* lower precedence assign.
C30_EmptyValueOverrides ==
    Done =>
        \A n \in 1..Len(SourceMaps) :
            \A k \in DOMAIN SourceMaps[n] :
                (/\ SourceMaps[n][k] = ""
                 /\ \A m \in (n + 1)..Len(SourceMaps) : k \notin DOMAIN SourceMaps[m])
                    => k \in DOMAIN result /\ result[k] = ""

\* C30 witness: mci/.env assigns 1 to A, mci/.env.mci has the line `A=`, no
\* other source defines A, and A is mapped to the empty string.
C30_Witness ==
    /\ Done
    /\ file_vars[1] = [A |-> "1"]
    /\ "A" \in DOMAIN file_vars[2] /\ file_vars[2]["A"] = ""
    /\ \A n \in 3..Len(SourceMaps) : "A" \notin DOMAIN SourceMaps[n]
    /\ result["A"] = ""

(***************************************************************************)
(* Claims about file handles                                               *)
(***************************************************************************)

\* C24: whenever parse_dotenv_file or _load_schema_data has returned or
\* raised, no handle is open, after any sequence of calls; a call has at most
\* one handle open.
C24_HandlesReleased ==
    /\ IoBetweenCalls => io.handles = {}
    /\ Cardinality(io.handles) <= 1

\* C24 witness: after an earlier call that opened a file, _load_schema_data
\* opened mci.txt, raised the unsupported-format error inside the with block,
\* and no handle is open.
C24_Witness ==
    /\ io.pc = "raised"
    /\ io.op = "load"
    /\ io.path.suffix = ".txt"
    /\ io.exc
    /\ io.calls = 2
    /\ io.opened = 2
    /\ io.handles = {}

(***************************************************************************)
(* Claims about the tool converter                                         *)
(***************************************************************************)

\* C27: convert_input_schema returns {type: object, properties: {}} for the
\* empty schema and a schema with `type` unchanged; for a schema that is not
\* empty and has no `type` it returns a schema with type object in which
\* every field of the argument is at the top level with its value.
C27_TypeAdded ==
    conv.pc = "schema" =>
        LET mci_schema == conv.tool.inputSchema
            out == conv.schema_out
        IN /\ mci_schema = EmptySchema =>
                out = VDict(<<"type", "properties">>, <<VStr("object"), EmptySchema>>)
           /\ HasKey(mci_schema, "type") => out = mci_schema
           /\ mci_schema # EmptySchema /\ ~HasKey(mci_schema, "type") =>
                /\ DictGet(out, "type", VNone) = VStr("object")
                /\ \A n \in 1..Len(mci_schema.keys) :
                      /\ HasKey(out, mci_schema.keys[n])
                      /\ DictGet(out, mci_schema.keys[n], VNone) = mci_schema.items[n]

====
